---- MODULE Spec2Model ----
(***************************************************************************)
(* Model of main.py: the rule-based field extractor                        *)
(* (extract_fields_rule_based), the PDF-to-text step                       *)
(* (extract_text_from_pdf_bytes) and the batch loop run by the             *)
(* "Run extraction" button.  A Python str is a sequence of one-character   *)
(* strings; None is the value None below.                                  *)
(***************************************************************************)
EXTENDS Integers, Sequences, FiniteSets, TLC

VARIABLES uploaded_files, results, idx, pc

vars == <<uploaded_files, results, idx, pc>>

(* ------------------------------ characters ----------------------------- *)

None == <<"None">>

Digits == {"0","1","2","3","4","5","6","7","8","9"}

UpperSeq == <<"A","B","C","D","E","F","G","H","I","J","K","L","M","N","O","P","Q","R","S","T","U","V","W","X","Y","Z">>

LowerSeq == <<"a","b","c","d","e","f","g","h","i","j","k","l","m","n","o","p","q","r","s","t","u","v","w","x","y","z">>

UpperLetters == {UpperSeq[i] : i \in 1..Len(UpperSeq)}

LowerLetters == {LowerSeq[i] : i \in 1..Len(LowerSeq)}

Letters == UpperLetters \cup LowerLetters

\* \s of the re module, and the characters str.strip() removes
Whitespace == {" ", "\t", "\n", "\r"}

\* \w of the re module
WordChars == Digits \cup Letters \cup {"_"}

IsWord(c) == c \in WordChars

\* [6-9]
PhoneFirstDigits == {"6","7","8","9"}

\* [-\s]
PhoneSeparators == {"-"} \cup Whitespace

\* [A-Z0-9]
UpperOrDigit == UpperLetters \cup Digits

\* [a-zA-Z0-9._%+-]
EmailLocalChars == Letters \cup Digits \cup {".","_","%","+","-"}

\* [a-zA-Z0-9.-]
EmailDomainChars == Letters \cup Digits \cup {".","-"}

IsDigit(c) == c \in Digits

Min(a, b) == IF a <= b THEN a ELSE b

SetMax(S) == CHOOSE m \in S : \A n \in S : n <= m

SetMin(S) == CHOOSE m \in S : \A n \in S : m <= n

(* ------------------------------ str methods ---------------------------- *)

LowerChar(c) ==
  IF c \in UpperLetters
  THEN LowerSeq[CHOOSE i \in 1..Len(UpperSeq) : UpperSeq[i] = c]
  ELSE c

\* str.lower()
lower(s) == [i \in 1..Len(s) |-> LowerChar(s[i])]

\* str.strip()
strip(s) ==
  LET keep == {i \in 1..Len(s) : s[i] \notin Whitespace}
  IN  IF keep = {} THEN <<>> ELSE SubSeq(s, SetMin(keep), SetMax(keep))

\* str.replace(old, new) for single characters
replace(s, old, new) == [i \in 1..Len(s) |-> IF s[i] = old THEN new ELSE s[i]]

\* sub in s
contains(sub, s) ==
  \E i \in 1..(Len(s) - Len(sub) + 1) : SubSeq(s, i, i + Len(sub) - 1) = sub

\* the scan of str.split: cut at the first maxsplit separators (-1: at all)
RECURSIVE SplitFrom(_, _, _)
SplitFrom(s, sep, maxsplit) ==
  LET at == {i \in 1..Len(s) : s[i] = sep}
  IN  IF at = {} \/ maxsplit = 0
      THEN <<s>>
      ELSE LET k == SetMin(at)
           IN  <<SubSeq(s, 1, k - 1)>>
               \o SplitFrom(SubSeq(s, k + 1, Len(s)), sep,
                            IF maxsplit < 0 THEN maxsplit ELSE maxsplit - 1)

\* str.split(sep)
split(s, sep) == SplitFrom(s, sep, -1)

\* str.split(sep, 1)
split1(s, sep) == SplitFrom(s, sep, 1)

\* str.splitlines(): no empty last line after a final line break
splitlines(s) ==
  LET parts == SplitFrom(s, "\n", -1)
  IN  IF parts[Len(parts)] = <<>> THEN SubSeq(parts, 1, Len(parts) - 1) ELSE parts

\* sep.join(list)
RECURSIVE join(_, _)
join(sep, list) ==
  IF list = <<>> THEN <<>>
  ELSE IF Len(list) = 1 THEN list[1]
  ELSE list[1] \o sep \o join(sep, Tail(list))

\* re.sub(r"\D", "", s)
DigitsOnly(s) == SelectSeq(s, IsDigit)

\* s[-10:]
Last10(s) == IF Len(s) <= 10 THEN s ELSE SubSeq(s, Len(s) - 9, Len(s))

(* ------------------------------ regexes -------------------------------- *)
(* A pattern is modelled by the length of its match starting at position p *)
(* (0: no match there), chosen as the backtracking matcher chooses it.     *)

\* \b at position p (between s[p-1] and s[p])
WordBoundary(s, p) ==
  (p > 1 /\ p - 1 <= Len(s) /\ IsWord(s[p - 1])) # (p <= Len(s) /\ IsWord(s[p]))

\* s[p .. p+n-1] lies in s and all its characters are in class
Run(s, p, n, class) ==
  /\ p >= 1
  /\ p + n - 1 <= Len(s)
  /\ \A k \in 0..(n - 1) : s[p + k] \in class

\* length of the longest run of class characters starting at p
RECURSIVE RunLen(_, _, _)
RunLen(s, p, class) ==
  IF p >= 1 /\ p <= Len(s) /\ s[p] \in class THEN 1 + RunLen(s, p + 1, class) ELSE 0

\* [6-9]\d{9}
PhoneBody(s, p) == Run(s, p, 1, PhoneFirstDigits) /\ Run(s, p + 1, 9, Digits)

\* (\+91[-\s]?)?[6-9]\d{9}
PHONE_REGEX(s, p) ==
  LET plus91 == p + 2 <= Len(s) /\ SubSeq(s, p, p + 2) = <<"+","9","1">>
  IN  IF plus91 /\ Run(s, p + 3, 1, PhoneSeparators) /\ PhoneBody(s, p + 4)
      THEN 14
      ELSE IF plus91 /\ PhoneBody(s, p + 3) THEN 13
      ELSE IF PhoneBody(s, p) THEN 10
      ELSE 0

\* \b\d{4}\s?\d{4}\s?\d{4}\b
AADHAAR_REGEX(s, p) ==
  LET g1 == p + 4
      s1 == IF Run(s, g1, 1, Whitespace) THEN 1 ELSE 0
      g2 == g1 + s1 + 4
      s2 == IF Run(s, g2, 1, Whitespace) THEN 1 ELSE 0
      e  == g2 + s2 + 4
  IN  IF /\ WordBoundary(s, p)
         /\ Run(s, p, 4, Digits)
         /\ Run(s, g1 + s1, 4, Digits)
         /\ Run(s, g2 + s2, 4, Digits)
         /\ WordBoundary(s, e)
      THEN e - p
      ELSE 0

\* \b\d{9,18}\b, the quantifier greedy
ACCOUNT_REGEX(s, p) ==
  LET ok == {n \in 9..18 : Run(s, p, n, Digits) /\ WordBoundary(s, p + n)}
  IN  IF WordBoundary(s, p) /\ ok # {} THEN SetMax(ok) ELSE 0

\* \b[A-Z]{5}[0-9]{4}[A-Z]\b
PAN_REGEX(s, p) ==
  IF /\ WordBoundary(s, p)
     /\ Run(s, p, 5, UpperLetters)
     /\ Run(s, p + 5, 4, Digits)
     /\ Run(s, p + 9, 1, UpperLetters)
     /\ WordBoundary(s, p + 10)
  THEN 10
  ELSE 0

\* \b[A-Z]{4}0[A-Z0-9]{6}\b
IFSC_REGEX(s, p) ==
  IF /\ WordBoundary(s, p)
     /\ Run(s, p, 4, UpperLetters)
     /\ Run(s, p + 4, 1, {"0"})
     /\ Run(s, p + 5, 6, UpperOrDigit)
     /\ WordBoundary(s, p + 11)
  THEN 11
  ELSE 0

\* [a-zA-Z0-9._%+-]+@[a-zA-Z0-9.-]+\.[a-zA-Z]{2,}
EMAIL_REGEX(s, p) ==
  LET ats   == {a \in (p + 1)..Len(s) : s[a] = "@"}
      local == IF ats # {} /\ Run(s, p, SetMin(ats) - p, EmailLocalChars)
               THEN SetMin(ats) - p ELSE 0
      q     == p + local + 1
      dom   == RunLen(s, q, EmailDomainChars)
      cuts  == {d \in 1..dom : Run(s, q + d, 1, {"."}) /\ Run(s, q + d + 1, 2, Letters)}
  IN  IF local >= 1 /\ cuts # {}
      THEN LET d == SetMax(cuts)
           IN  local + 1 + d + 1 + RunLen(s, q + d + 1, Letters)
      ELSE 0

\* the result of a search that found nothing (Python's None match object)
NoMatch == [start |-> 0, len |-> 0]

\* pattern.match(s, p): the compiled pattern of that name, tried at p
match(pattern, s, p) ==
  CASE pattern = "PAN_REGEX"     -> PAN_REGEX(s, p)
    [] pattern = "AADHAAR_REGEX" -> AADHAAR_REGEX(s, p)
    [] pattern = "EMAIL_REGEX"   -> EMAIL_REGEX(s, p)
    [] pattern = "PHONE_REGEX"   -> PHONE_REGEX(s, p)
    [] pattern = "IFSC_REGEX"    -> IFSC_REGEX(s, p)
    [] pattern = "ACCOUNT_REGEX" -> ACCOUNT_REGEX(s, p)

\* pattern.search(s): the leftmost match as [start, len], or NoMatch
search(pattern, s) ==
  LET at == {p \in 1..Len(s) : match(pattern, s, p) > 0}
  IN  IF at = {} THEN NoMatch
      ELSE [start |-> SetMin(at), len |-> match(pattern, s, SetMin(at))]

\* m.group(0)
group0(s, m) == SubSeq(s, m.start, m.start + m.len - 1)

(* ------------------------ extract_fields_rule_based -------------------- *)

\* norm = text.replace("\r", "\n")
normalize(text) == replace(text, "\r", "\n")

\* lines = [ln.strip() for ln in norm.splitlines() if ln.strip()]
RECURSIVE stripped_lines(_)
stripped_lines(raw) ==
  IF raw = <<>> THEN <<>>
  ELSE IF strip(raw[1]) # <<>>
       THEN <<strip(raw[1])>> \o stripped_lines(Tail(raw))
       ELSE stripped_lines(Tail(raw))

lines_of(norm) == stripped_lines(splitlines(norm))

\* m.group(0) if m else None
verbatim(pattern, norm) ==
  LET m == search(pattern, norm)
  IN  IF m.len > 0 THEN group0(norm, m) ELSE None

\* the digits of the match, [:10] in place of [-10:]
phone_digits_first10(matched) ==
  LET d == DigitsOnly(matched) IN IF Len(d) <= 10 THEN d ELSE SubSeq(d, 1, 10)

\* the digits of the match, all of them
phone_digits_untrimmed(matched) == DigitsOnly(matched)

\* re.sub(r"\D", "", m.group(0))[-10:]
phone_digits(matched) == Last10(DigitsOnly(matched))

\* phone: PHONE_REGEX.search(s), then the last 10 digits of the match
phone_of(s) ==
  LET m == search("PHONE_REGEX", s)
  IN  IF m.len > 0 THEN phone_digits(group0(s, m)) ELSE None

\* a skip test that never skips
skip_never(digits, aadhaar_digits) == FALSE

\* a skip test that skips every 12-digit candidate
skip_any_12(digits, aadhaar_digits) == Len(digits) = 12

\* the skip test of the bank-account loop
skip_aadhaar_like(digits, aadhaar_digits) ==
  digits = aadhaar_digits /\ Len(digits) = 12

\* for m in ACCOUNT_REGEX.finditer(norm): the first candidate not skipped
RECURSIVE bank_account_from(_, _, _)
bank_account_from(norm, p, aadhaar_digits) ==
  IF p > Len(norm) THEN None
  ELSE LET n == ACCOUNT_REGEX(norm, p)
       IN  IF n = 0 THEN bank_account_from(norm, p + 1, aadhaar_digits)
           ELSE LET digits == SubSeq(norm, p, p + n - 1)
                IN  IF skip_aadhaar_like(digits, aadhaar_digits)
                    THEN bank_account_from(norm, p + n, aadhaar_digits)
                    ELSE digits

bank_account_of(norm, aadhaar) ==
  LET aadhaar_digits == IF aadhaar # None THEN DigitsOnly(aadhaar) ELSE <<>>
  IN  bank_account_from(norm, 1, aadhaar_digits)

\* the index of the first line containing "emergency", or -1
RECURSIVE ec_start_from(_, _)
ec_start_from(lines, i) ==
  IF i > Len(lines) THEN -1
  ELSE IF contains(<<"e","m","e","r","g","e","n","c","y">>, lower(lines[i])) THEN i
  ELSE ec_start_from(lines, i + 1)

\* how many lines the emergency block holds: lines[ec_start: ec_start + 5]
EC_BLOCK == 5

\* a block that runs from the emergency line to the last line
emergency_block_to_end(lines) ==
  LET ec_start == ec_start_from(lines, 1)
  IN  IF ec_start = -1 THEN <<>> ELSE SubSeq(lines, ec_start, Len(lines))

emergency_block(lines) ==
  LET ec_start == ec_start_from(lines, 1)
  IN  IF ec_start = -1 THEN <<>>
      ELSE SubSeq(lines, ec_start, Min(ec_start + EC_BLOCK - 1, Len(lines)))

\* for ln in block: the phone of the first line PHONE_REGEX matches
RECURSIVE emergency_phone_of(_)
emergency_phone_of(block) ==
  IF block = <<>> THEN None
  ELSE IF search("PHONE_REGEX", block[1]).len > 0 THEN phone_of(block[1])
  ELSE emergency_phone_of(Tail(block))

\* parts = ln.split(":"); parts[1].strip() if len(parts) > 1 else ln.strip()
label_value(ln) ==
  LET parts == split(ln, ":")
  IN  IF Len(parts) > 1 THEN strip(parts[2]) ELSE strip(ln)

\* for ln in block: the value of the first line containing "name"
RECURSIVE emergency_name_of(_)
emergency_name_of(block) ==
  IF block = <<>> THEN None
  ELSE IF contains(<<"n","a","m","e">>, lower(block[1])) THEN label_value(block[1])
  ELSE emergency_name_of(Tail(block))

\* a name-line test that forgets the "father" exclusion
is_name_line_father_too(low) ==
  contains(<<"n","a","m","e">>, low) /\ ~contains(<<"e","m","e","r","g","e","n","c","y">>, low)

\* the test that selects the candidate's name line
is_name_line(low) ==
  /\ contains(<<"n","a","m","e">>, low)
  /\ ~contains(<<"f","a","t","h","e","r">>, low)
  /\ ~contains(<<"e","m","e","r","g","e","n","c","y">>, low)

\* for ln in lines: the value of the first name line, from line i on
RECURSIVE name_from(_, _)
name_from(lines, i) ==
  IF i > Len(lines) THEN None
  ELSE LET low == lower(lines[i])
       IN  IF is_name_line(low) THEN label_value(lines[i])
           ELSE name_from(lines, i + 1)

name_of(lines) == name_from(lines, 1)

\* the index of the first line containing "address", or -1
RECURSIVE addr_start_from(_, _)
addr_start_from(lines, i) ==
  IF i > Len(lines) THEN -1
  ELSE IF contains(<<"a","d","d","r","e","s","s">>, lower(lines[i])) THEN i
  ELSE addr_start_from(lines, i + 1)

SECTION_KEYS ==
  { <<"b","a","n","k"," ","d","e","t","a","i","l","s">>, <<"b","a","n","k"," ","a","c","c","o","u","n","t">>, <<"i","f","s","c">>, <<"e","m","e","r","g","e","n","c","y"," ","c","o","n","t","a","c","t">>,
    <<"p","a","n"," ","n","u","m","b","e","r">>, <<"a","a","d","h","a","a","r"," ","n","u","m","b","e","r">>, <<"c","a","n","d","i","d","a","t","e"," ","i","n","f","o","r","m","a","t","i","o","n">> }

\* any(key in low for key in [...])
is_section_header(low) == \E key \in SECTION_KEYS : contains(key, low)

\* the following lines, the section header that ends them included
RECURSIVE following_lines_and_header(_)
following_lines_and_header(rest) ==
  IF rest = <<>> THEN <<>>
  ELSE IF \E key \in SECTION_KEYS : contains(key, lower(rest[1])) THEN <<strip(rest[1])>>
  ELSE <<strip(rest[1])>> \o following_lines_and_header(Tail(rest))

\* for ln in lines[addr_start + 1:]: the lines before the next section header
RECURSIVE following_lines(_)
following_lines(rest) ==
  IF rest = <<>> THEN <<>>
  ELSE IF is_section_header(lower(rest[1])) THEN <<>>
  ELSE <<strip(rest[1])>> \o following_lines(Tail(rest))

\* the text after "Address:" on the first line, when there is some
first_fragment(first_line) ==
  LET parts == split1(first_line, ":")
  IN  IF Len(parts) > 1 /\ strip(parts[2]) # <<>> THEN <<strip(parts[2])>> ELSE <<>>

address_of(lines) ==
  LET addr_start == addr_start_from(lines, 1)
  IN  IF addr_start = -1 THEN None
      ELSE LET addr_lines == first_fragment(lines[addr_start])
                             \o following_lines(SubSeq(lines, addr_start + 1, Len(lines)))
           IN  IF addr_lines # <<>> THEN join(<<","," ">>, addr_lines) ELSE None

extract_fields_rule_based(text, source_file_name) ==
  LET norm    == normalize(text)
      lines   == lines_of(norm)
      aadhaar == verbatim("AADHAAR_REGEX", norm)
      block   == emergency_block(lines)
  IN  [ name                    |-> name_of(lines),
        email                   |-> verbatim("EMAIL_REGEX", norm),
        phone                   |-> phone_of(norm),
        pan                     |-> verbatim("PAN_REGEX", norm),
        aadhaar                 |-> aadhaar,
        address                 |-> address_of(lines),
        bank_account            |-> bank_account_of(norm, aadhaar),
        ifsc                    |-> verbatim("IFSC_REGEX", norm),
        emergency_contact_name  |-> emergency_name_of(block),
        emergency_contact_phone |-> emergency_phone_of(block),
        source_file_name        |-> source_file_name ]

(* ------------------------------ the batch ------------------------------ *)
(* An uploaded file is [name, opens, pages]: opens says whether            *)
(* pdfplumber.open accepts the bytes (it raises on bytes that are no       *)
(* readable PDF); pages holds what page.extract_text() returns per page,   *)
(* None for a page without a text layer.                                   *)

\* pages_text = [page.extract_text() or "" for page in pdf.pages]
pages_text(pages) == [i \in 1..Len(pages) |-> IF pages[i] = None THEN <<>> ELSE pages[i]]

\* extract_text_from_pdf_bytes, for bytes that open
extract_text_from_pdf_bytes(f) == join(<<"\n">>, pages_text(f.pages))

\* "Run extraction" pressed with nothing uploaded: st.warning
WarnNoFiles ==
  /\ pc = "idle"
  /\ uploaded_files = <<>>
  /\ pc' = "warning"
  /\ UNCHANGED <<uploaded_files, results, idx>>

\* "Run extraction" pressed with files: the loop starts
StartBatch ==
  /\ pc = "idle"
  /\ uploaded_files # <<>>
  /\ pc' = "loop"
  /\ idx' = 1
  /\ results' = <<>>
  /\ UNCHANGED uploaded_files

\* one pass of the loop body for a file that opens
ProcessFile ==
  /\ pc = "loop"
  /\ idx <= Len(uploaded_files)
  /\ uploaded_files[idx].opens
  /\ LET f    == uploaded_files[idx]
         text == extract_text_from_pdf_bytes(f)
         row  == extract_fields_rule_based(text, f.name)
     IN  results' = Append(results, row)
  /\ idx' = idx + 1
  /\ UNCHANGED <<uploaded_files, pc>>

\* pdfplumber.open raises: nothing catches it, the script run ends there
ProcessFileRaises ==
  /\ pc = "loop"
  /\ idx <= Len(uploaded_files)
  /\ ~uploaded_files[idx].opens
  /\ pc' = "exception"
  /\ UNCHANGED <<uploaded_files, results, idx>>

\* the loop is over: the table of results is shown
ShowResults ==
  /\ pc = "loop"
  /\ idx > Len(uploaded_files)
  /\ pc' = "done"
  /\ UNCHANGED <<uploaded_files, results, idx>>

Next ==
  \/ WarnNoFiles
  \/ StartBatch
  \/ ProcessFile
  \/ ProcessFileRaises
  \/ ShowResults

(* --------------------------- the inputs checked ------------------------ *)

\* all sequences over S of length at most n
SeqsUpTo(S, n) == UNION {[1..k -> S] : k \in 0..n}

\* the concatenation of a sequence of strings
RECURSIVE Concat(_)
Concat(q) == IF q = <<>> THEN <<>> ELSE q[1] \o Concat(Tail(q))

\* a PDF that opens, with one page of the given text
OnePage(text) == [name |-> <<"a",".","p","d","f">>, opens |-> TRUE, pages |-> <<text>>]

\* bytes pdfplumber.open rejects
Unreadable(name) == [name |-> name, opens |-> FALSE, pages |-> <<>>]

\* the state when the script starts, for a given set of uploads
InitWith(batches) ==
  /\ uploaded_files \in batches
  /\ results = <<>>
  /\ idx = 0
  /\ pc = "idle"

\* at most one upload, its text drawn from texts
SingleUploads(texts) ==
  {<<>>, <<Unreadable(<<"a",".","p","d","f">>)>>} \cup {<<OnePage(t)>> : t \in texts}

(* ---- batches ---- *)

MaxFiles == 3

FileNames == {<<"a",".","p","d","f">>, <<"b",".","p","d","f">>}

PageSets ==
  { <<>>,
    <<None>>,
    <<<<"N","a","m","e",":"," ","J","a","n","e"," ","D","o","e","\n","P","A","N"," ","A","B","C","D","E","1","2","3","4","F">>>>,
    <<<<"j","a","n","e","@","x",".","i","o">>, None, <<"I","F","S","C"," ","H","D","F","C","0","0","0","1","2","3","4">>>> }

BatchFiles ==
  {[name |-> n, opens |-> TRUE, pages |-> ps] : n \in FileNames, ps \in PageSets}
  \cup {Unreadable(n) : n \in FileNames}

Init == InitWith(SeqsUpTo(BatchFiles, MaxFiles))

Spec == Init /\ [][Next]_vars

\* the script run is over: the table is shown, or an exception ended the run
RunOver == pc \in {"done", "exception"}

\* the record whose fields are all None except source_file_name
NullRecord(name) ==
  [ name |-> None, email |-> None, phone |-> None, pan |-> None,
    aadhaar |-> None, address |-> None, bank_account |-> None, ifsc |-> None,
    emergency_contact_name |-> None, emergency_contact_phone |-> None,
    source_file_name |-> name ]

\* text extraction fails for f: the bytes do not open, or no page has text
ExtractionFails(f) == ~f.opens \/ extract_text_from_pdf_bytes(f) = <<>>

\* C1: a document whose text extraction fails (unreadable, or without text)
\* does not stop the batch: once the run is over there is a record for every
\* document, and the record of each failing document has every field None
\* except source_file_name.
C1_FailureDoesNotStopBatch ==
  RunOver =>
    /\ Len(results) = Len(uploaded_files)
    /\ \A i \in 1..Len(uploaded_files) :
         ExtractionFails(uploaded_files[i])
           => results[i] = NullRecord(uploaded_files[i].name)

\* C2: for every non-empty batch the run produces exactly one record per
\* document, in input order, the i-th record carrying the i-th file name.
C2_OneRecordPerDocument ==
  (RunOver /\ uploaded_files # <<>>) =>
    /\ Len(results) = Len(uploaded_files)
    /\ \A i \in 1..Len(uploaded_files) :
         results[i].source_file_name = uploaded_files[i].name

(* ---- digit runs: Aadhaar and bank account ---- *)

MaxBankPieces == 3

BankPieces ==
  { <<"1","2","3","4","1","2","3","4","1","2","3","4">>, <<"1","2","3","4"," ","1","2","3","4"," ","1","2","3","4">>, <<"5","6","7","8"," ","5","6","7","8"," ","5","6","7","8">>, <<"9","8","7","6","5","4","3","2","1","0","1">>,
    <<"1","2","3","4","5","6","7","8","9">>, <<"1","2","3","4">>, <<"1","2","3","4","5","6","7","8","9","0","1","2","3","4","5","6","7","8","9">>, <<" ">>, <<"x">> }

BankInit == InitWith(SingleUploads({Concat(q) : q \in SeqsUpTo(BankPieces, MaxBankPieces)}))

BankSpec == BankInit /\ [][Next]_vars

\* the normalized text the i-th record was extracted from
NormOf(i) == normalize(extract_text_from_pdf_bytes(uploaded_files[i]))

\* n digits start at p, with no word character on either side
StandaloneRun(t, p, n) ==
  /\ p + n - 1 <= Len(t)
  /\ (p = 1 \/ ~IsWord(t[p - 1]))
  /\ (p + n > Len(t) \/ ~IsWord(t[p + n]))
  /\ \A k \in p..(p + n - 1) : t[k] \in Digits

\* the standalone runs of 9 to 18 digits of t, each as <<start, length>>
AccountRuns(t) ==
  {x \in (1..Len(t)) \X (9..18) : StandaloneRun(t, x[1], x[2])}

RunText(t, x) == SubSeq(t, x[1], x[1] + x[2] - 1)

\* the digit-only form of an aadhaar field (empty for None)
AadhaarDigits(r) == IF r.aadhaar = None THEN <<>> ELSE DigitsOnly(r.aadhaar)

\* the places where the Aadhaar pattern matches in t
AadhaarPlaces(t) == {p \in 1..Len(t) : AADHAAR_REGEX(t, p) > 0}

\* C3: bank_account never equals the digit-only form of aadhaar when that
\* form has 12 digits; and when the only 9-18 digit runs of the text are the
\* Aadhaar number itself, aadhaar is populated and bank_account is None.
C3_BankAccountNeverAadhaar ==
  \A i \in 1..Len(results) :
    LET r    == results[i]
        t    == NormOf(i)
        a    == AadhaarDigits(r)
        runs == AccountRuns(t)
    IN  /\ Len(a) = 12 => r.bank_account # a
        /\ \A x \in runs :
             ( /\ x[2] = 12
               /\ \A y \in runs : RunText(t, y) = RunText(t, x)
               /\ \A p \in AadhaarPlaces(t) :
                    DigitsOnly(SubSeq(t, p, p + AADHAAR_REGEX(t, p) - 1)) = RunText(t, x) )
             => (a = RunText(t, x) /\ r.bank_account = None)

\* C3 witness: a text with a 9-18 digit run gave an aadhaar and no bank account
C3_Witness ==
  /\ pc = "done"
  /\ \E i \in 1..Len(results) :
       /\ results[i].aadhaar # None
       /\ results[i].bank_account = None
       /\ AccountRuns(NormOf(i)) # {}

\* those of the runs that the bank-account rule does not skip
KeptRuns(t, runs, a) == {x \in runs : ~(x[2] = 12 /\ RunText(t, x) = a)}

\* C4: bank_account is the first standalone 9-18 digit run that is not a
\* 12-digit run equal to the digit-only aadhaar, None when no run remains;
\* so with an Aadhaar number and a separate 11-digit run as the only runs,
\* bank_account is the 11-digit run.
C4_BankAccountFirstKeptRun ==
  \A i \in 1..Len(results) :
    LET r    == results[i]
        t    == NormOf(i)
        a    == AadhaarDigits(r)
        runs == AccountRuns(t)
        kept == KeptRuns(t, runs, a)
    IN  /\ kept = {} => r.bank_account = None
        /\ kept # {} =>
             \E x \in kept :
               /\ \A y \in kept : x[1] <= y[1]
               /\ r.bank_account = RunText(t, x)
        /\ \A x \in runs :
             ( /\ x[2] = 11
               /\ r.aadhaar # None
               /\ \A y \in runs :
                    RunText(t, y) = RunText(t, x) \/ RunText(t, y) = a )
             => r.bank_account = RunText(t, x)

\* C4 witness: the Aadhaar run came first and was skipped, a later run was taken
C4_Witness ==
  /\ pc = "done"
  /\ \E i \in 1..Len(results) :
       LET t    == NormOf(i)
           a    == AadhaarDigits(results[i])
           runs == AccountRuns(t)
       IN  /\ Len(results[i].bank_account) = 11
           /\ \E x \in runs, y \in runs :
                /\ x[1] < y[1]
                /\ RunText(t, x) = a
                /\ RunText(t, y) = results[i].bank_account

(* ---- phone numbers ---- *)

MaxPhonePieces == 3

PhonePieces ==
  { <<"+","9","1","-","9","8","7","6","5","4","3","2","1","0">>, <<"+","9","1","9","8","7","6","5","4","3","2","1","0">>, <<"9","1","9","8","7","6","5","4","3","2","1","0">>, <<"7","1","2","3","4","5","6","7","8","9">>,
    <<"+","9","1"," ">>, <<"5","1","2","3","4">>, <<"P","h",":"," ">>, <<" ">>, <<"x">>, <<"\n">> }

PhoneInit ==
  InitWith(SingleUploads({Concat(q) : q \in SeqsUpTo(PhonePieces, MaxPhonePieces)}))

PhoneSpec == PhoneInit /\ [][Next]_vars

\* a 10-digit number whose first digit is 6-9 starts at p
TenDigitNumber(t, p) ==
  /\ p >= 1
  /\ p + 9 <= Len(t)
  /\ t[p] \in PhoneFirstDigits
  /\ \A k \in (p + 1)..(p + 9) : t[k] \in Digits

\* t holds w at p
HoldsAt(t, p, w) == p + Len(w) - 1 <= Len(t) /\ SubSeq(t, p, p + Len(w) - 1) = w

\* the phone occurrences of t as <<start, prefix length>>: no prefix, "+91",
\* or "+91" and one hyphen or whitespace character, then the 10-digit number
PlusOccurrences(t) ==
  {x \in (1..Len(t)) \X {0, 3, 4} :
     /\ TenDigitNumber(t, x[1] + x[2])
     /\ x[2] > 0 => HoldsAt(t, x[1], <<"+","9","1">>)
     /\ x[2] = 4 => t[x[1] + 3] \in PhoneSeparators}

\* the same with a bare "91" allowed as a prefix too (prefix length 2)
BareOccurrences(t) ==
  PlusOccurrences(t) \cup
  {x \in (1..Len(t)) \X {2} : HoldsAt(t, x[1], <<"9","1">>) /\ TenDigitNumber(t, x[1] + 2)}

\* the 10-digit number of an occurrence
NumberOf(t, x) == SubSeq(t, x[1] + x[2], x[1] + x[2] + 9)

\* x is the first occurrence of occ, the longest prefix deciding a tie
FirstOf(occ, x) ==
  \A y \in occ : x[1] < y[1] \/ (x[1] = y[1] /\ x[2] >= y[2])

\* the phone the text gives when its occurrences are occ
PhoneFrom(t, occ) ==
  IF occ = {} THEN None
  ELSE NumberOf(t, CHOOSE x \in occ : FirstOf(occ, x))

\* w is the first thing in t that looks like a phone number: no digit and
\* no plus sign before it, no digit after it
FirstNumberIs(t, w) ==
  \E p \in 1..Len(t) :
    /\ HoldsAt(t, p, w)
    /\ \A k \in 1..(p - 1) : t[k] \notin Digits \cup {"+"}
    /\ p + Len(w) <= Len(t) => t[p + Len(w)] \notin Digits

\* C5 as stated: the pattern takes an optional "+91" or "91" prefix before
\* the 10-digit number and phone is that number; a first occurrence
\* "+91-9876543210", "+919876543210" or "919876543210" gives "9876543210".
C5_PhoneBarePrefix ==
  \A i \in 1..Len(results) :
    LET t == NormOf(i)
    IN  /\ results[i].phone = PhoneFrom(t, BareOccurrences(t))
        /\ ( \/ FirstNumberIs(t, <<"+","9","1","-","9","8","7","6","5","4","3","2","1","0">>)
             \/ FirstNumberIs(t, <<"+","9","1","9","8","7","6","5","4","3","2","1","0">>)
             \/ FirstNumberIs(t, <<"9","1","9","8","7","6","5","4","3","2","1","0">>) )
           => results[i].phone = <<"9","8","7","6","5","4","3","2","1","0">>

\* C5 amended: the only prefix the pattern takes is "+91", optionally
\* followed by one hyphen or whitespace character; phone is the 10-digit
\* number of the first occurrence. "+91-9876543210" and "+919876543210"
\* give "9876543210"; "919876543210" gives "9198765432".
C5_PhonePlusPrefix ==
  \A i \in 1..Len(results) :
    LET t == NormOf(i)
    IN  /\ results[i].phone = PhoneFrom(t, PlusOccurrences(t))
        /\ ( \/ FirstNumberIs(t, <<"+","9","1","-","9","8","7","6","5","4","3","2","1","0">>)
             \/ FirstNumberIs(t, <<"+","9","1","9","8","7","6","5","4","3","2","1","0">>) )
           => results[i].phone = <<"9","8","7","6","5","4","3","2","1","0">>
        /\ FirstNumberIs(t, <<"9","1","9","8","7","6","5","4","3","2","1","0">>) => results[i].phone = <<"9","1","9","8","7","6","5","4","3","2">>

\* C5 witness: a text whose first number is "+91-9876543210" was extracted
C5_Witness ==
  /\ pc = "done"
  /\ \E i \in 1..Len(results) :
       /\ FirstNumberIs(NormOf(i), <<"+","9","1","-","9","8","7","6","5","4","3","2","1","0">>)
       /\ results[i].phone = <<"9","8","7","6","5","4","3","2","1","0">>

\* the text whose lines are the given strings
TextOfLines(ls) == join(<<"\n">>, ls)

\* the trimmed non-empty lines the i-th record was extracted from
LinesOf(i) == lines_of(NormOf(i))

\* the lines of ls, by index, whose lowercase form contains w
LinesWith(ls, w) == {j \in 1..Len(ls) : contains(w, lower(ls[j]))}

\* the trimmed text after the first colon of ln, the whole line without one
AfterFirstColon(ln) ==
  LET colons == {k \in 1..Len(ln) : ln[k] = ":"}
  IN  IF colons = {} THEN strip(ln)
      ELSE strip(SubSeq(ln, SetMin(colons) + 1, Len(ln)))

(* ---- the candidate's name ---- *)

MaxNameLines == 3

NameLines ==
  { <<"F","a","t","h","e","r"," ","N","a","m","e",":"," ","R","a","m">>, <<"E","m","e","r","g","e","n","c","y"," ","C","o","n","t","a","c","t"," ","N","a","m","e",":"," ","S","a","m",":"," ","7","1","2","3","4","5","6","7","8","9">>,
    <<"N","a","m","e",":"," ","J","a","n","e"," ","D","o","e">>, <<"F","u","l","l"," ","n","a","m","e">>, <<"N","A","M","E",":"," ","D","r",":"," ","J","o">>, <<"C","i","t","y",":"," ","P","u","n","e">> }

NameInit ==
  InitWith(SingleUploads({TextOfLines(q) : q \in SeqsUpTo(NameLines, MaxNameLines)}))

NameSpec == NameInit /\ [][Next]_vars

\* the lines that may give the candidate's name
NameCandidates(ls) ==
  LinesWith(ls, <<"n","a","m","e">>) \ (LinesWith(ls, <<"f","a","t","h","e","r">>) \cup LinesWith(ls, <<"e","m","e","r","g","e","n","c","y">>))

\* C8: name comes from the first line containing "name" and neither
\* "father" nor "emergency"; no other line is its source, and name is None
\* when no line qualifies.
C8_NameFromFirstQualifyingLine ==
  \A i \in 1..Len(results) :
    LET ls == LinesOf(i)
        Q  == NameCandidates(ls)
    IN  IF Q = {} THEN results[i].name = None
        ELSE results[i].name = label_value(ls[SetMin(Q)])

\* C8 witness: the first line holds "father", the name came from a later line
C8_Witness ==
  /\ pc = "done"
  /\ \E i \in 1..Len(results) :
       /\ 1 \in LinesWith(LinesOf(i), <<"f","a","t","h","e","r">>)
       /\ results[i].name = <<"J","a","n","e"," ","D","o","e">>

\* the lines of the five-line emergency window, by index
EmergencyWindow(ls) ==
  LET E == LinesWith(ls, <<"e","m","e","r","g","e","n","c","y">>)
  IN  IF E = {} THEN {} ELSE {j \in 1..Len(ls) : SetMin(E) <= j /\ j <= SetMin(E) + 4}

\* C9: name and emergency_contact_name are the trimmed text after the first
\* colon of the selected line, further colons included, and the whole
\* trimmed line when it has no colon.
C9_ValueIsRestAfterFirstColon ==
  \A i \in 1..Len(results) :
    LET ls == LinesOf(i)
        Q  == NameCandidates(ls)
        W  == EmergencyWindow(ls) \cap LinesWith(ls, <<"n","a","m","e">>)
    IN  /\ Q # {} => results[i].name = AfterFirstColon(ls[SetMin(Q)])
        /\ W # {} => results[i].emergency_contact_name = AfterFirstColon(ls[SetMin(W)])

(* ---- the address ---- *)

MaxFollowing == 2

AddressHeads == { <<>>, <<<<"N","a","m","e",":"," ","J","a","n","e"," ","D","o","e">>>> }

AddressStarts ==
  { <<>>, <<<<"A","d","d","r","e","s","s",":"," ","1","2"," ","M","G"," ","R","o","a","d">>>>, <<<<"A","D","D","R","E","S","S">>>>, <<<<"A","d","d","r","e","s","s"," ",":"," "," ">>>>,
    <<<<"H","o","m","e"," ","a","d","d","r","e","s","s",":"," ","F","l","a","t"," ","2",":"," ","M","G"," ","R","o","a","d">>>> }

AddressFollowing == { <<"B","a","n","g","a","l","o","r","e">>, <<"P","i","n",":"," ","5","6","0","0","0","1">> }

AddressStops ==
  { <<>>, <<<<"B","a","n","k"," ","D","e","t","a","i","l","s">>>>, <<<<"B","a","n","k"," ","A","c","c","o","u","n","t",":"," ","9","8","7","6","5","4","3","2","1","0","1">>>>, <<<<"I","F","S","C",":"," ","H","D","F","C","0","0","0","1","2","3","4">>>>,
    <<<<"E","m","e","r","g","e","n","c","y"," ","C","o","n","t","a","c","t">>>>, <<<<"P","A","N"," ","N","u","m","b","e","r",":"," ","A","B","C","D","E","1","2","3","4","F">>>>,
    <<<<"A","a","d","h","a","a","r"," ","N","u","m","b","e","r",":"," ","1","2","3","4"," ","1","2","3","4"," ","1","2","3","4">>>>, <<<<"C","A","N","D","I","D","A","T","E"," ","I","N","F","O","R","M","A","T","I","O","N">>>>,
    <<<<"B","a","n","k",":"," ","H","D","F","C">>>> }

AddressTails == { <<>>, <<<<"M","u","m","b","a","i">>>> }

AddressTexts ==
  {TextOfLines(h \o a \o f \o st \o tl) :
     h \in AddressHeads, a \in AddressStarts,
     f \in SeqsUpTo(AddressFollowing, MaxFollowing),
     st \in AddressStops, tl \in AddressTails}

AddressInit == InitWith(SingleUploads(AddressTexts))

AddressSpec == AddressInit /\ [][Next]_vars

\* the seven section keywords
C6_Keywords ==
  { <<"b","a","n","k"," ","d","e","t","a","i","l","s">>, <<"b","a","n","k"," ","a","c","c","o","u","n","t">>, <<"i","f","s","c">>, <<"e","m","e","r","g","e","n","c","y"," ","c","o","n","t","a","c","t">>,
    <<"p","a","n"," ","n","u","m","b","e","r">>, <<"a","a","d","h","a","a","r"," ","n","u","m","b","e","r">>, <<"c","a","n","d","i","d","a","t","e"," ","i","n","f","o","r","m","a","t","i","o","n">> }

\* the lines of ls, by index, holding a section keyword
SectionLines(ls) == UNION {LinesWith(ls, w) : w \in C6_Keywords}

\* the fragments of the address that starts at line s
AddressFragments(ls, s) ==
  LET stops == {j \in SectionLines(ls) : j > s}
      last  == IF stops = {} THEN Len(ls) ELSE SetMin(stops) - 1
      first == IF \E k \in 1..Len(ls[s]) : ls[s][k] = ":"
               THEN AfterFirstColon(ls[s]) ELSE <<>>
  IN  (IF first # <<>> THEN <<first>> ELSE <<>>) \o SubSeq(ls, s + 1, last)

\* C6: with a line containing "address", address is the ", "-join of the
\* trimmed text after the first colon of the first such line (when not
\* empty) and of every later line before the first line holding one of the
\* seven section keywords; None when there is no fragment or no such line.
C6_AddressFragments ==
  \A i \in 1..Len(results) :
    LET ls == LinesOf(i)
        A  == LinesWith(ls, <<"a","d","d","r","e","s","s">>)
    IN  IF A = {} THEN results[i].address = None
        ELSE LET frags == AddressFragments(ls, SetMin(A))
             IN  IF frags = <<>> THEN results[i].address = None
                 ELSE results[i].address = join(<<","," ">>, frags)

\* C6 witness: an address of two fragments, ended by a section line that a
\* further line follows
C6_Witness ==
  /\ pc = "done"
  /\ \E i \in 1..Len(results) :
       LET ls == LinesOf(i)
       IN  /\ results[i].address = <<"1","2"," ","M","G"," ","R","o","a","d",","," ","B","a","n","g","a","l","o","r","e">>
           /\ \E j \in SectionLines(ls) : j < Len(ls)

(* ---- the emergency contact ---- *)

MaxHeadLines == 2

MaxGap == 4

EmergencyLines ==
  { <<"E","m","e","r","g","e","n","c","y"," ","C","o","n","t","a","c","t">>, <<"N","a","m","e",":"," ","R","a","j">>, <<"M","o","b",":"," ","+","9","1"," ","9","8","7","6","5","4","3","2","1","0">>,
    <<"e","m","e","r","g","e","n","c","y"," ","n","a","m","e"," ","S","a","m"," ","7","1","2","3","4","5","6","7","8","9">> }

FillerLine == <<"C","i","t","y",":"," ","P","u","n","e">>

\* up to MaxHeadLines lines, then up to MaxGap filler lines, then one more line or none
EmergencyTexts ==
  {TextOfLines(h \o [j \in 1..g |-> FillerLine] \o tl) :
     h \in SeqsUpTo(EmergencyLines, MaxHeadLines),
     g \in 0..MaxGap,
     tl \in {<<>>} \cup {<<l>> : l \in EmergencyLines}}

EmergencyInit == InitWith(SingleUploads(EmergencyTexts))

EmergencySpec == EmergencyInit /\ [][Next]_vars

IsTenDigits(v) == Len(v) = 10 /\ TenDigitNumber(v, 1)

\* C10: a record with an emergency_contact_phone has a phone, and each of
\* the two, when not None, is exactly 10 digits with a first digit 6-9.
C10_PhonesWellFormed ==
  \A i \in 1..Len(results) :
    LET r == results[i]
    IN  /\ r.emergency_contact_phone # None => r.phone # None
        /\ r.phone # None => IsTenDigits(r.phone)
        /\ r.emergency_contact_phone # None => IsTenDigits(r.emergency_contact_phone)

\* C10 witness: an emergency phone taken from a "+91" number, beside a phone
C10_Witness ==
  /\ pc = "done"
  /\ \E i \in 1..Len(results) :
       /\ results[i].emergency_contact_phone = <<"9","8","7","6","5","4","3","2","1","0">>
       /\ results[i].phone # None
====
